---- MODULE Spec2Model ----
(***************************************************************************)
(* Model of the audio reconciliation script audio_generator.py: the sheet  *)
(* adapter (read_sheet_column, update_sheet_cells_with_retry), the retry   *)
(* executor (exponential_backoff_retry), the gap detector                  *)
(* (find_rows_needing_audio), process_row and the driver main.             *)
(*                                                                         *)
(* A Python str is a sequence of characters (one-character strings; a few  *)
(* fixed multi-character tokens stand for literal pieces of f-strings).    *)
(* Optional values are <<>> (None) or <<v>>.  Delays are in tenths of a    *)
(* second.                                                                 *)
(***************************************************************************)
EXTENDS Integers, Sequences, FiniteSets, TLC

\* ------------------------------------------------------------------ bounds
\* Number of data rows of the sheet grid (below the header row).
NumDataRows == 2
\* Largest max_retries value drawn for a call of the retry executor.
MaxRetriesDrawn == 5
\* Length of the sequences handed to the gap detector on its own.
MaxSeqLen == 3
\* Number of sleeps of the poller that are counted (the count stops there,
\* the poller does not).
MaxCycles == 3

\* ------------------------------------------------------- program constants
DEFAULT_MAX_RETRIES == 5
DEFAULT_BASE_DELAY == 10
DEFAULT_MAX_DELAY == 160
DEFAULT_START_ROW == 2
HEADER_ROW == 1
FILENAME_WIDTH == 6
\* time.sleep(15) of wait_for_translations, in seconds
POLL_INTERVAL == 15

\* ----------------------------------------------------------------- strings
None == <<>>
Some(v) == <<v>>

Min(a, b) == IF a < b THEN a ELSE b
Max(a, b) == IF a > b THEN a ELSE b

RECURSIVE Pow2(_)
Pow2(n) == IF n <= 0 THEN 1 ELSE 2 * Pow2(n - 1)

IsSpace(c) == c = " "

RECURSIVE lstrip(_)
lstrip(s) == IF s # <<>> /\ IsSpace(Head(s)) THEN lstrip(Tail(s)) ELSE s

RECURSIVE rstrip(_)
rstrip(s) ==
    IF s # <<>> /\ IsSpace(s[Len(s)]) THEN rstrip(SubSeq(s, 1, Len(s) - 1)) ELSE s

\* str.strip()
strip(s) == rstrip(lstrip(s))

\* `not s.strip()`
IsBlank(s) == strip(s) = <<>>

UPPER == <<"A", "F", "I", "S", "T">>
LOWER == <<"a", "f", "i", "s", "t">>

LowerChar(c) ==
    IF \E k \in 1..Len(UPPER) : UPPER[k] = c
    THEN LOWER[CHOOSE k \in 1..Len(UPPER) : UPPER[k] = c]
    ELSE c

\* str.lower()
lower(s) == [k \in 1..Len(s) |-> LowerChar(s[k])]

IsDigit(c) == \E d \in 0..9 : ToString(d) = c
DigitVal(c) == CHOOSE d \in 0..9 : ToString(d) = c

RECURSIVE DigitsVal(_)
DigitsVal(s) ==
    IF s = <<>> THEN 0 ELSE 10 * DigitsVal(SubSeq(s, 1, Len(s) - 1)) + DigitVal(s[Len(s)])

\* int(s): surrounding whitespace stripped, an optional sign, then digits;
\* anything else raises ValueError (ok = FALSE).
int(s) ==
    LET t == strip(s)
        signed == t # <<>> /\ Head(t) \in {"+", "-"}
        body == IF signed THEN Tail(t) ELSE t
        valid == body # <<>> /\ \A k \in 1..Len(body) : IsDigit(body[k])
    IN  IF ~valid THEN [ok |-> FALSE, val |-> 0]
        ELSE [ok |-> TRUE,
              val |-> IF signed /\ Head(t) = "-" THEN 0 - DigitsVal(body) ELSE DigitsVal(body)]

RECURSIVE Digits(_)
Digits(n) == IF n < 10 THEN <<ToString(n)>> ELSE Digits(n \div 10) \o <<ToString(n % 10)>>

RECURSIVE Zeros(_)
Zeros(k) == IF k <= 0 THEN <<>> ELSE <<"0">> \o Zeros(k - 1)

\* format(n, "06"): sign-aware zero padding to width 6.
Format06(n) ==
    LET sign == IF n < 0 THEN <<"-">> ELSE <<>>
        d == Digits(IF n < 0 THEN 0 - n ELSE n)
    IN  sign \o Zeros(FILENAME_WIDTH - Len(sign) - Len(d)) \o d

\* f"sentence_{int(sentence_id):06}.mp3"
FilenameOf(n) == <<"sentence_">> \o Format06(n) \o <<".mp3">>

HL_OPEN == "=HYPERLINK(\""
HL_SEP == "\", \""
HL_CLOSE == "\")"

\* the formula without its closing parenthesis
hyperlink_formula_unclosed(link, filename) ==
    <<HL_OPEN>> \o link \o <<HL_SEP>> \o filename

\* f'=HYPERLINK("{link}", "{filename}")'
hyperlink_formula(link, filename) ==
    <<HL_OPEN>> \o link \o <<HL_SEP>> \o filename \o <<HL_CLOSE>>

TRANSLATION == <<"t", "r", "a", "n", "s", "l", "a", "t", "i", "o", "n">>
AUDIO_FILE == <<"a", "u", "d", "i", "o", "_", "f", "i", "l", "e">>
SENTENCE_ID == <<"s", "e", "n", "t", "e", "n", "c", "e", "_", "i", "d">>

\* ------------------------------------------------------------- sheet store
\* A column of the store is the sequence of what was entered into its cells,
\* indexed by absolute row number.  values.get returns what a cell displays:
\* the label of a HYPERLINK formula, the entered text otherwise.
IsHyperlink(e) == e # <<>> /\ Head(e) = HL_OPEN

Display(e) ==
    IF IsHyperlink(e)
    THEN LET sep == CHOOSE k \in 1..Len(e) :
                        e[k] = HL_SEP /\ \A j \in 1..(k - 1) : e[j] # HL_SEP
         IN  SubSeq(e, sep + 1, Len(e) - 1)
    ELSE e

LinkOf(e) ==
    LET sep == CHOOSE k \in 1..Len(e) :
                   e[k] = HL_SEP /\ \A j \in 1..(k - 1) : e[j] # HL_SEP
    IN  SubSeq(e, 2, sep - 1)

RECURSIVE DropTrailingEmptyRows(_)
DropTrailingEmptyRows(rows) ==
    IF rows # <<>> /\ rows[Len(rows)] = <<>>
    THEN DropTrailingEmptyRows(SubSeq(rows, 1, Len(rows) - 1))
    ELSE rows

\* spreadsheets().values().get(range = col{first}:col{last}).execute()
\*   .get('values', []): one row per cell, [] for an empty cell, the empty
\* rows at the end of the range left out.  last = None is an open range.
ValuesGet(column, first, last) ==
    LET stop == IF last = None THEN Len(column) ELSE Min(last[1], Len(column))
        cells == SubSeq(column, first, stop)
        rows == [k \in 1..Len(cells) |->
                    IF Display(cells[k]) = <<>> THEN <<>> ELSE <<Display(cells[k])>>]
    IN  DropTrailingEmptyRows(rows)

\* spreadsheets().values().update(range = col{row}:col, body = values)
ValuesUpdate(column, row, values) ==
    [k \in 1..Len(column) |->
        IF k >= row /\ k < row + Len(values) THEN values[k - row + 1] ELSE column[k]]

RECURSIVE PadTo(_, _)
PadTo(vals, n) == IF Len(vals) < n THEN PadTo(Append(vals, <<>>), n) ELSE vals

\* the read that keeps its trailing blank values
KeepTrailingBlank(vals) == vals

RECURSIVE PopTrailingBlank(_)
PopTrailingBlank(vals) ==
    IF vals # <<>> /\ IsBlank(vals[Len(vals)])
    THEN PopTrailingBlank(SubSeq(vals, 1, Len(vals) - 1))
    ELSE vals

\* `if force_row_count:` is false for None and for 0.
Truthy(force_row_count) == force_row_count # None /\ force_row_count[1] # 0

read_sheet_column(column, start_row, force_row_count) ==
    LET range_end == IF Truthy(force_row_count)
                     THEN Some(start_row + force_row_count[1] - 1) ELSE None
        values == ValuesGet(column, start_row, range_end)
        column_values == [k \in 1..Len(values) |->
                             IF values[k] # <<>> THEN values[k][1] ELSE <<>>]
        padded == IF Truthy(force_row_count)
                  THEN PadTo(column_values, force_row_count[1]) ELSE column_values
    IN  IF force_row_count = None THEN PopTrailingBlank(padded) ELSE padded

\* ------------------------------------------------------------ gap detector
RECURSIVE GapLoop(_, _, _, _, _)
GapLoop(audio_column_values, text_column_values, start_row, idx, rows_needing_audio) ==
    \* zip() stops at the end of the shorter sequence
    IF idx >= Min(Len(audio_column_values), Len(text_column_values))
    THEN rows_needing_audio
    ELSE LET audio_link == audio_column_values[idx + 1]
             text == text_column_values[idx + 1]
         IN  IF IsBlank(text)
             THEN GapLoop(audio_column_values, text_column_values, start_row,
                          idx + 1, rows_needing_audio)
             ELSE IF IsBlank(audio_link)
             THEN GapLoop(audio_column_values, text_column_values, start_row,
                          idx + 1, Append(rows_needing_audio, start_row + idx))
             ELSE GapLoop(audio_column_values, text_column_values, start_row,
                          idx + 1, rows_needing_audio)

\* the gap detector without its marker check
find_rows_ignoring_marker(audio_column_values, text_column_values, start_row) ==
    GapLoop([k \in 1..Len(audio_column_values) |-> <<>>], text_column_values,
            start_row, 0, <<>>)

\* the gap detector counting rows from start_row + 1
find_rows_off_by_one(audio_column_values, text_column_values, start_row) ==
    GapLoop(audio_column_values, text_column_values, start_row + 1, 0, <<>>)

\* the gap detector returning its rows last first
find_rows_descending(audio_column_values, text_column_values, start_row) ==
    LET rows == GapLoop(audio_column_values, text_column_values, start_row, 0, <<>>)
    IN  [k \in 1..Len(rows) |-> rows[Len(rows) - k + 1]]

find_rows_needing_audio(audio_column_values, text_column_values, start_row) ==
    GapLoop(audio_column_values, text_column_values, start_row, 0, <<>>)

\* ---------------------------------------------------------- retry executor
\* An operation handed to the executor is the sequence of what its successive
\* invocations do: [ok |-> TRUE, value |-> v] returns v, [ok |-> FALSE,
\* value |-> e] raises e.  jitter[k] is the k-th draw of random.uniform(0, 1).

\* the delay without its cap
backoff_delay_uncapped(attempt, base_delay, max_delay, jitter) ==
    base_delay * Pow2(attempt) + jitter

\* min(base_delay * (2 ** attempt) + random.uniform(0, 1), max_delay)
backoff_delay(attempt, base_delay, max_delay, jitter) ==
    Min(base_delay * Pow2(attempt) + jitter, max_delay)

\* the last-attempt test off by one
is_last_attempt_off_by_one(attempt, max_retries) == attempt = max_retries

\* `if attempt == max_retries - 1: raise`
is_last_attempt(attempt, max_retries) == attempt = max_retries - 1

RECURSIVE RetryLoop(_, _, _, _, _, _, _)
RetryLoop(func, max_retries, base_delay, max_delay, jitter, attempt, delays) ==
    IF attempt >= max_retries
    THEN \* range(max_retries) is exhausted: the function ends, returning None
         [status |-> "none", value |-> <<>>, calls |-> attempt, delays |-> delays]
    ELSE LET r == func[attempt + 1]
         IN  IF r.ok
             THEN [status |-> "returned", value |-> r.value,
                   calls |-> attempt + 1, delays |-> delays]
             ELSE IF is_last_attempt(attempt, max_retries)
             THEN [status |-> "raised", value |-> r.value,
                   calls |-> attempt + 1, delays |-> delays]
             ELSE RetryLoop(func, max_retries, base_delay, max_delay, jitter, attempt + 1,
                            Append(delays,
                                   backoff_delay(attempt, base_delay, max_delay,
                                                 jitter[attempt + 1])))

exponential_backoff_retry(func, max_retries, base_delay, max_delay, jitter) ==
    RetryLoop(func, max_retries, base_delay, max_delay, jitter, 0, <<>>)

\* default arguments of exponential_backoff_retry, as its callers use it
NoJitter == [k \in 1..DEFAULT_MAX_RETRIES |-> 0]

retry_default(func) ==
    exponential_backoff_retry(func, DEFAULT_MAX_RETRIES, DEFAULT_BASE_DELAY,
                              DEFAULT_MAX_DELAY, NoJitter)

\* A remote operation that raises on its first `failures` invocations and
\* returns `value` afterwards.
FailingFirst(failures, value) ==
    [k \in 1..DEFAULT_MAX_RETRIES |->
        IF k <= failures THEN [ok |-> FALSE, value |-> <<"HttpError">>]
        ELSE [ok |-> TRUE, value |-> value]]

\* try: return exponential_backoff_retry(...)  except ...: return None
synthesize_speech_with_retry(func) ==
    LET r == retry_default(func)
    IN  IF r.status = "returned" THEN Some(r.value) ELSE None

upload_audio_file_with_retry(func) ==
    LET r == retry_default(func)
    IN  IF r.status = "returned" THEN Some(r.value) ELSE None

\* the marker written one row too low
update_sheet_cells_one_row_down(column, start_row, values, func) ==
    LET r == retry_default(func)
    IN  IF r.status = "returned" THEN ValuesUpdate(column, start_row + 1, values) ELSE column

\* the marker written into its row and the row below it
update_sheet_cells_two_rows(column, start_row, values, func) ==
    LET r == retry_default(func)
    IN  IF r.status = "returned"
        THEN ValuesUpdate(column, start_row, values \o values)
        ELSE column

\* the write that is acknowledged and changes nothing
update_sheet_cells_not_applied(column, start_row, values, func) == column

\* the write that goes through even when every attempt is reported failed
update_sheet_cells_always_applied(column, start_row, values, func) ==
    ValuesUpdate(column, start_row, values)

\* The column after update_sheet_cells_with_retry: the update applied when an
\* attempt succeeds; when the retries are exhausted the error is logged, the
\* function returns and the column is as it was.
update_sheet_cells_with_retry(column, start_row, values, func) ==
    LET r == retry_default(func)
    IN  IF r.status = "returned" THEN ValuesUpdate(column, start_row, values) ELSE column

\* rows_to_process[:max_rows]
SliceTo(rows, n) ==
    LET stop == IF n < 0 THEN Max(Len(rows) + n, 0) ELSE Min(n, Len(rows))
    IN  SubSeq(rows, 1, stop)

\* `if args.max_rows is not None: rows_to_process = rows_to_process[:args.max_rows]`
cap_rows(rows, max_rows) ==
    IF max_rows # None THEN SliceTo(rows, max_rows[1]) ELSE rows

\* validate_sheet_structure: "ok", or "exit" for sys.exit(1)
HeaderOf(values) == IF values # <<>> /\ values[1] # <<>> THEN values[1][1] ELSE <<>>

validate_sheet_structure(text_header, audio_link_header, id_header) ==
    IF IsBlank(text_header) \/ IsBlank(audio_link_header) \/ IsBlank(id_header)
    THEN "exit"
    ELSE IF lower(text_header) # TRANSLATION THEN "exit"
    ELSE IF lower(audio_link_header) # AUDIO_FILE THEN "exit"
    ELSE IF lower(id_header) # SENTENCE_ID THEN "exit"
    ELSE "ok"

\* ------------------------------------------------------------------- state
VARIABLES
    sheet,             \* the store: [text, audio, id], each a column by row number
    drive,             \* the blob store: set of [name, link] of the uploaded files
    args,              \* the parsed options: [max_rows]
    run,               \* "first" or "second" invocation of the script
    pc,                \* the driver's position in main / process_row
    text_col_values,   \* main's locals
    audio_col_values,
    rows_found,        \* the list find_rows_needing_audio returned (None before)
    rows_to_process,
    cursor,            \* position of the for loop in rows_to_process
    progress,          \* per row: what this run has issued for it, and how it went
    filename,          \* process_row's locals
    link,
    outcome,           \* "running", "complete", "exit0", "exit1", "crashed"
    err,               \* the uncaught exception of a crashed run
    prev,              \* what the first run left: [progress, rows_found, outcome]
    call,              \* a single call of a pure function: its arguments and result
    trace,             \* the remote calls this run has made, in order: [op, row, ok]
    sheet_at_start     \* the store as it was when this run began

vars == <<sheet, drive, args, run, pc, text_col_values, audio_col_values, rows_found,
          rows_to_process, cursor, progress, filename, link, outcome, err, prev, call,
          trace, sheet_at_start>>

locals == <<text_col_values, audio_col_values, rows_found, rows_to_process, cursor,
            filename, link>>

GridRows == HEADER_ROW + NumDataRows
DataRows == (HEADER_ROW + 1)..GridRows

E == <<>>
WS == <<" ">>
TXT == <<"a">>

\* the link the blob store hands out for an upload: unique per upload
LinkFor(r, row) == <<"L", IF r = "first" THEN "1" ELSE "2", ToString(row)>>

\* a marker left by an earlier invocation
OldMarker(row) == hyperlink_formula(<<"L", "0", ToString(row)>>, FilenameOf(row - 1))

\* the id the sheet population gave the row
GoodId(row) == <<ToString(row - 1)>>

\* an id cell with no id in it: empty in the first data row, blank below
MissingId(row) == IF row = DEFAULT_START_ROW THEN E ELSE WS

RowProfiles(row) ==
    {[text |-> t, audio |-> a, id |-> GoodId(row)] :
        t \in {E, WS, TXT}, a \in {E, WS, OldMarker(row)}}
    \cup {[text |-> TXT, audio |-> E, id |-> i] : i \in {MissingId(row), <<"x">>}}

HeaderProfiles ==
    {[text |-> <<"T">> \o Tail(TRANSLATION), audio |-> E, id |-> SENTENCE_ID],
     [text |-> TXT, audio |-> E, id |-> SENTENCE_ID],
     [text |-> TRANSLATION, audio |-> TXT, id |-> E]}

Sheets ==
    {[text |-> <<h.text>> \o [k \in 1..NumDataRows |-> d[k].text],
      audio |-> <<h.audio>> \o [k \in 1..NumDataRows |-> d[k].audio],
      id |-> <<h.id>> \o [k \in 1..NumDataRows |-> d[k].id]] :
        h \in HeaderProfiles,
        d \in {f \in [1..NumDataRows -> UNION {RowProfiles(r) : r \in DataRows}] :
                  \A k \in 1..NumDataRows : f[k] \in RowProfiles(HEADER_ROW + k)}}

NoErr == [kind |-> "none", op |-> "none", attempts |-> 0]
NoPrev == [progress |-> <<>>, rows_found |-> None, outcome |-> "none"]
NoCall == [fn |-> "none"]
FreshProgress == [r \in DataRows |-> {}]

RunIdle ==
    /\ sheet = [text |-> <<>>, audio |-> <<>>, id |-> <<>>]
    /\ drive = {}
    /\ args = [max_rows |-> None]
    /\ run = "first"
    /\ pc = "idle"
    /\ text_col_values = <<>>
    /\ audio_col_values = <<>>
    /\ rows_found = None
    /\ rows_to_process = <<>>
    /\ cursor = 0
    /\ progress = FreshProgress
    /\ filename = <<>>
    /\ link = <<>>
    /\ outcome = "running"
    /\ err = NoErr
    /\ prev = NoPrev
    /\ trace = <<>>
    /\ sheet_at_start = sheet

Init ==
    /\ sheet \in Sheets
    /\ drive = {}
    /\ args \in {[max_rows |-> m] : m \in {None, Some(1)}}
    /\ run = "first"
    /\ pc = "get_title"
    /\ text_col_values = <<>>
    /\ audio_col_values = <<>>
    /\ rows_found = None
    /\ rows_to_process = <<>>
    /\ cursor = 0
    /\ progress = FreshProgress
    /\ filename = <<>>
    /\ link = <<>>
    /\ outcome = "running"
    /\ err = NoErr
    /\ prev = NoPrev
    /\ call = NoCall
    /\ trace = <<>>
    /\ sheet_at_start = sheet

\* ----------------------------------------------------------------- driver
\* An exception nothing catches ends the process.
Crash(kind, op, attempts) ==
    /\ pc' = "done"
    /\ outcome' = "crashed"
    /\ err' = [kind |-> kind, op |-> op, attempts |-> attempts]

\* sys.exit(code)
Exit(code) ==
    /\ pc' = "done"
    /\ outcome' = code
    /\ err' = err

Goto(label) ==
    /\ pc' = label
    /\ outcome' = outcome
    /\ err' = err

\* a call of a remote service has been made for row `row` (0: for no row)
Log(op, row, ok) == trace' = Append(trace, [op |-> op, row |-> row, ok |-> ok])

\* spreadsheet_title = get_spreadsheet_title(...)
GetTitle ==
    /\ pc = "get_title"
    /\ \E ok \in BOOLEAN :
          /\ Log("get_title", 0, ok)
          /\ IF ok THEN Goto("ensure_header") ELSE Crash("remote", "get_title", 1)
    /\ UNCHANGED <<sheet, drive, args, run, locals, progress, prev, call, sheet_at_start>>

\* ensure_column_header(..., args.audio_link_column, 'audio_file')
EnsureHeader ==
    /\ pc = "ensure_header"
    /\ \E ok \in BOOLEAN :
          /\ Log("ensure_header", 0, ok)
          /\ IF ok
             THEN /\ sheet' = [sheet EXCEPT
                                  !.audio = ValuesUpdate(sheet.audio, HEADER_ROW, <<AUDIO_FILE>>)]
                  /\ Goto("read_text")
             ELSE /\ sheet' = sheet
                  /\ Crash("remote", "ensure_column_header", 1)
    /\ UNCHANGED <<drive, args, run, locals, progress, prev, call, sheet_at_start>>

\* text_col_values = read_sheet_column(..., args.text_column, args.start_row)
ReadText ==
    /\ pc = "read_text"
    /\ \E ok \in BOOLEAN :
          /\ Log("read_text", 0, ok)
          /\ IF ok
             THEN /\ text_col_values' = read_sheet_column(sheet.text, DEFAULT_START_ROW, None)
                  /\ Goto("read_audio")
             ELSE /\ text_col_values' = text_col_values
                  /\ Crash("remote", "read_sheet_column", 1)
    /\ UNCHANGED <<sheet, drive, args, run, audio_col_values, rows_found, rows_to_process,
                   cursor, filename, link, progress, prev, call, sheet_at_start>>

\* audio_col_values = read_sheet_column(..., force_row_count=len(text_col_values))
ReadAudio ==
    /\ pc = "read_audio"
    /\ \E ok \in BOOLEAN :
          /\ Log("read_audio", 0, ok)
          /\ IF ok
             THEN /\ audio_col_values' =
                        read_sheet_column(sheet.audio, DEFAULT_START_ROW,
                                          Some(Len(text_col_values)))
                  /\ Goto("compute_gap")
             ELSE /\ audio_col_values' = audio_col_values
                  /\ Crash("remote", "read_sheet_column", 1)
    /\ UNCHANGED <<sheet, drive, args, run, text_col_values, rows_found, rows_to_process,
                   cursor, filename, link, progress, prev, call, sheet_at_start>>

\* the driver that goes on with an empty list
nothing_to_do_never(rows) == FALSE

\* `if not rows_to_process:` ... sys.exit(0)
nothing_to_do(rows) == rows = <<>>

\* the length check, find_rows_needing_audio and the empty-gap exit
ComputeGap ==
    /\ pc = "compute_gap"
    /\ IF Len(audio_col_values) # Len(text_col_values)
       THEN /\ Exit("exit1")
            /\ UNCHANGED <<rows_found, rows_to_process>>
       ELSE LET rows == find_rows_needing_audio(audio_col_values, text_col_values,
                                                DEFAULT_START_ROW)
            IN  /\ rows_found' = Some(rows)
                /\ rows_to_process' = rows
                /\ IF nothing_to_do(rows) THEN Exit("exit0") ELSE Goto("folder")
    /\ UNCHANGED <<sheet, drive, args, run, text_col_values, audio_col_values, cursor,
                   filename, link, progress, prev, call, trace, sheet_at_start>>

\* create_or_get_audio_folder, then the max_rows cap
CreateFolder ==
    /\ pc = "folder"
    /\ \E ok \in BOOLEAN :
          /\ Log("folder", 0, ok)
          /\ IF ok
             THEN /\ rows_to_process' = cap_rows(rows_to_process, args.max_rows)
                  /\ Goto("validate")
             ELSE /\ rows_to_process' = rows_to_process
                  /\ Crash("remote", "create_or_get_audio_folder", 1)
    /\ UNCHANGED <<sheet, drive, args, run, text_col_values, audio_col_values, rows_found,
                   cursor, filename, link, progress, prev, call, sheet_at_start>>

\* validate_sheet_structure, then the first turn of the for loop
ValidateStructure ==
    /\ pc = "validate"
    /\ \E ok \in BOOLEAN :
         /\ Log("validate", 0, ok)
         /\
          IF ok
          THEN LET text_header == HeaderOf(ValuesGet(sheet.text, HEADER_ROW, Some(HEADER_ROW)))
                   audio_header == HeaderOf(ValuesGet(sheet.audio, HEADER_ROW, Some(HEADER_ROW)))
                   id_header == HeaderOf(ValuesGet(sheet.id, HEADER_ROW, Some(HEADER_ROW)))
               IN  IF validate_sheet_structure(text_header, audio_header, id_header) = "exit"
                   THEN Exit("exit1") /\ cursor' = cursor
                   ELSE IF rows_to_process = <<>>
                   THEN Exit("complete") /\ cursor' = cursor
                   ELSE Goto("synthesize") /\ cursor' = 1
          ELSE Crash("remote", "validate_sheet_structure", 1) /\ cursor' = cursor
    /\ UNCHANGED <<sheet, drive, args, run, text_col_values, audio_col_values, rows_found,
                   rows_to_process, filename, link, progress, prev, call, sheet_at_start>>

\* ------------------------------------------------------------ process_row
\* process_row without its early returns
gives_up_never(result) == FALSE

\* `if not audio_content: return` / `if not link: return`
gives_up(result) == result = None \/ result[1] = <<>>

\* process_row without its check of the id
id_missing_never(sentence_id) == FALSE

\* `if not sentence_id.strip(): ... return`
id_missing(sentence_id) == IsBlank(sentence_id)

\* process_row has returned: the for loop takes the next row or main ends
Return ==
    IF cursor < Len(rows_to_process)
    THEN Goto("synthesize") /\ cursor' = cursor + 1
    ELSE Exit("complete") /\ cursor' = cursor

CurrentRow == rows_to_process[cursor]

Mark(row_num, events) == [progress EXCEPT ![row_num] = @ \cup events]

\* the empty-text check and synthesize_speech_with_retry
Synthesize ==
    /\ pc = "synthesize"
    /\ LET row_num == CurrentRow
           text == text_col_values[row_num - DEFAULT_START_ROW + 1]
       IN  IF IsBlank(text)
           THEN /\ progress' = Mark(row_num, {"skipped"})
                /\ trace' = trace
                /\ Return
           ELSE \E failures \in 0..DEFAULT_MAX_RETRIES :
                   LET audio_content ==
                           synthesize_speech_with_retry(FailingFirst(failures, <<"bytes">>))
                   IN  /\ progress' = Mark(row_num, IF audio_content = None
                                                    THEN {"synth_failed"} ELSE {"synth_ok"})
                       /\ Log("synthesize", row_num, audio_content # None)
                       /\ IF gives_up(audio_content)
                          THEN Return
                          ELSE Goto("read_id") /\ cursor' = cursor
    /\ UNCHANGED <<sheet, drive, args, run, text_col_values, audio_col_values, rows_found,
                   rows_to_process, filename, link, prev, call, sheet_at_start>>

\* the read of the row's sentence id and the filename
ReadId ==
    /\ pc = "read_id"
    /\ LET row_num == CurrentRow
       IN  \E ok \in BOOLEAN :
             /\ Log("read_id", row_num, ok)
             /\
              IF ~ok
              THEN /\ progress' = Mark(row_num, {"id_read_failed"})
                   /\ Crash("remote", "read_sentence_id", 1)
                   /\ UNCHANGED <<cursor, filename>>
              ELSE LET sentence_id == HeaderOf(ValuesGet(sheet.id, row_num, Some(row_num)))
                   IN  IF id_missing(sentence_id)
                       THEN /\ progress' = Mark(row_num, {"id_missing"})
                            /\ Return
                            /\ filename' = filename
                       ELSE IF ~int(sentence_id).ok
                       THEN /\ progress' = Mark(row_num, {"id_invalid"})
                            /\ Crash("ValueError", "int", 0)
                            /\ UNCHANGED <<cursor, filename>>
                       ELSE /\ progress' = Mark(row_num, {"named"})
                            /\ filename' = FilenameOf(int(sentence_id).val)
                            /\ Goto("upload")
                            /\ cursor' = cursor
    /\ UNCHANGED <<sheet, drive, args, run, text_col_values, audio_col_values, rows_found,
                   rows_to_process, link, prev, call, sheet_at_start>>

\* upload_audio_file_with_retry
Upload ==
    /\ pc = "upload"
    /\ LET row_num == CurrentRow
       IN  \E failures \in 0..DEFAULT_MAX_RETRIES :
              LET got == upload_audio_file_with_retry(
                             FailingFirst(failures, LinkFor(run, row_num)))
              IN  /\ drive' = IF got = None THEN drive
                              ELSE drive \cup {[name |-> filename, link |-> got[1]]}
                  /\ progress' = Mark(row_num, IF got = None
                                               THEN {"upload_failed"} ELSE {"uploaded"})
                  /\ Log("upload", row_num, got # None)
                  /\ IF gives_up(got)
                     THEN Return /\ UNCHANGED <<filename, link>>
                     ELSE /\ link' = IF got = None THEN <<"None">> ELSE got[1]
                          /\ Goto("write_marker")
                          /\ UNCHANGED <<cursor, filename>>
    /\ UNCHANGED <<sheet, args, run, text_col_values, audio_col_values, rows_found,
                   rows_to_process, prev, call, sheet_at_start>>

\* update_sheet_cells_with_retry(..., row_num, args.audio_link_column, [hyperlink_formula])
WriteMarker ==
    /\ pc = "write_marker"
    /\ LET row_num == CurrentRow
       IN  \E failures \in 0..DEFAULT_MAX_RETRIES :
              LET func == FailingFirst(failures, <<"ack">>)
                  column == update_sheet_cells_with_retry(
                                sheet.audio, row_num,
                                <<hyperlink_formula(link, filename)>>, func)
              IN  /\ sheet' = [sheet EXCEPT !.audio = column]
                  /\ Log("write_marker", row_num, retry_default(func).status = "returned")
                  /\ progress' = Mark(row_num,
                                      {"write_issued",
                                       IF retry_default(func).status = "returned"
                                       THEN "written" ELSE "write_failed"})
                  /\ Return
    /\ UNCHANGED <<drive, args, run, text_col_values, audio_col_values, rows_found,
                   rows_to_process, filename, link, prev, call, sheet_at_start>>

\* The script is invoked again, with nothing changed outside it in between.
StartSecondRun ==
    /\ pc = "done"
    /\ run = "first"
    /\ run' = "second"
    /\ prev' = [progress |-> progress, rows_found |-> rows_found, outcome |-> outcome]
    /\ pc' = "get_title"
    /\ outcome' = "running"
    /\ err' = NoErr
    /\ progress' = FreshProgress
    /\ text_col_values' = <<>>
    /\ audio_col_values' = <<>>
    /\ rows_found' = None
    /\ rows_to_process' = <<>>
    /\ cursor' = 0
    /\ filename' = <<>>
    /\ link' = <<>>
    /\ trace' = <<>>
    /\ sheet_at_start' = sheet
    /\ UNCHANGED <<sheet, drive, args, call>>

Next ==
    \/ GetTitle
    \/ EnsureHeader
    \/ ReadText
    \/ ReadAudio
    \/ ComputeGap
    \/ CreateFolder
    \/ ValidateStructure
    \/ Synthesize
    \/ ReadId
    \/ Upload
    \/ WriteMarker
    \/ StartSecondRun

Spec == Init /\ [][Next]_vars

\* ------------------------------------------------ single calls of functions
Pending == [status |-> "pending", value |-> <<>>, calls |-> 0, delays |-> <<>>]

\* The operation of a call of the retry executor: invocation k returns
\* <<"val", k>> where ok[k], raises <<"err", k>> otherwise.
FuncOf(ok) ==
    [k \in 1..Len(ok) |-> [ok |-> ok[k], value |-> <<IF ok[k] THEN "val" ELSE "err", k>>]]

InitRetry ==
    /\ RunIdle
    /\ call \in [fn : {"retry"},
                 max_retries : (0 - 1)..MaxRetriesDrawn,
                 base_delay : {DEFAULT_BASE_DELAY, 2 * DEFAULT_BASE_DELAY},
                 max_delay : {DEFAULT_MAX_DELAY \div 4, DEFAULT_MAX_DELAY},
                 ok : [1..MaxRetriesDrawn -> BOOLEAN],
                 jitter : [1..MaxRetriesDrawn -> {0, 10}],
                 done : {FALSE},
                 result : {Pending}]

CallRetry ==
    /\ call.fn = "retry"
    /\ ~call.done
    /\ call' = [call EXCEPT
                   !.done = TRUE,
                   !.result = exponential_backoff_retry(FuncOf(call.ok), call.max_retries,
                                                        call.base_delay, call.max_delay,
                                                        call.jitter)]
    /\ UNCHANGED <<sheet, drive, args, run, pc, locals, progress, outcome, err, prev,
                   trace, sheet_at_start>>

SpecRetry == InitRetry /\ [][CallRetry]_vars

SeqsUpTo(S, n) == UNION {[1..k -> S] : k \in 0..n}

GapCells == {E, WS, TXT, <<" ", "c">>}

InitGap ==
    /\ RunIdle
    /\ call \in [fn : {"gap"},
                 audio : SeqsUpTo(GapCells, MaxSeqLen),
                 text : SeqsUpTo(GapCells, MaxSeqLen),
                 start_row : {1, DEFAULT_START_ROW},
                 done : {FALSE},
                 result : {[status |-> "pending", value |-> <<>>]}]

\* find_rows_needing_audio has no raise and no check of its arguments'
\* lengths: on sequences of str it always returns its list.
CallGap ==
    /\ call.fn = "gap"
    /\ ~call.done
    /\ call' = [call EXCEPT
                   !.done = TRUE,
                   !.result = [status |-> "returned",
                               value |-> find_rows_needing_audio(call.audio, call.text,
                                                                 call.start_row)]]
    /\ UNCHANGED <<sheet, drive, args, run, pc, locals, progress, outcome, err, prev,
                   trace, sheet_at_start>>

SpecGap == InitGap /\ [][CallGap]_vars

StoreCells == {E, WS, TXT, OldMarker(DEFAULT_START_ROW)}

InitRead ==
    /\ RunIdle
    /\ call \in {c \in [fn : {"read"},
                        column : [1..GridRows -> StoreCells],
                        start_row : {HEADER_ROW, DEFAULT_START_ROW},
                        force_row_count : {None} \cup {Some(n) : n \in 0..GridRows},
                        done : {FALSE},
                        result : {<<>>}] :
                   \* the forced range lies inside the grid
                   c.force_row_count = None
                   \/ c.start_row + c.force_row_count[1] - 1 <= GridRows}

CallRead ==
    /\ call.fn = "read"
    /\ ~call.done
    /\ call' = [call EXCEPT
                   !.done = TRUE,
                   !.result = read_sheet_column(call.column, call.start_row,
                                                call.force_row_count)]
    /\ UNCHANGED <<sheet, drive, args, run, pc, locals, progress, outcome, err, prev,
                   trace, sheet_at_start>>

SpecRead == InitRead /\ [][CallRead]_vars

\* ------------------------------------------------------------------ claims
\* Blank, said without str.strip(): every character is a space.
AllSpaces(s) == \A k \in 1..Len(s) : s[k] = " "

RangeOf(seq) == {seq[k] : k \in 1..Len(seq)}

\* the rows for which a synthesis or an upload gave no result
FailedRows(p) == {r \in DOMAIN p : p[r] \cap {"synth_failed", "upload_failed"} # {}}

\* the display value the run read in the marker / source cell of a row
MarkerRead(row) == audio_col_values[row - DEFAULT_START_ROW + 1]
SourceRead(row) == text_col_values[row - DEFAULT_START_ROW + 1]
WasRead(row) ==
    /\ rows_found # None
    /\ row - DEFAULT_START_ROW + 1 \in 1..Len(text_col_values)

\* C1 (resumability): a row whose synthesis or upload gave no result gets no
\* marker write in that run, its marker cell is still blank when the run has
\* ended, and the row is in the gap list the next run computes.
C1_Resumability ==
    /\ \A r \in FailedRows(progress) :
          /\ "write_issued" \notin progress[r]
          /\ pc = "done" => AllSpaces(Display(sheet.audio[r]))
    /\ (run = "second" /\ rows_found # None) =>
          \A r \in FailedRows(prev.progress) : r \in RangeOf(rows_found[1])

C1_Witness ==
    /\ run = "second"
    /\ rows_found # None
    /\ \E r \in FailedRows(prev.progress) :
          /\ "upload_failed" \in prev.progress[r]
          /\ r \in RangeOf(rows_found[1])

\* C2 as stated (idempotence after every outcome of the first run): the gap
\* list the second run computes is empty.
C2_Original == (run = "second" /\ rows_found # None) => rows_found[1] = <<>>

\* the first run computed its gap list and wrote the marker of every row of it
FirstRunWroteAll ==
    /\ prev.rows_found # None
    /\ \A r \in RangeOf(prev.rows_found[1]) : "written" \in prev.progress[r]

\* C2 (idempotence, amended): when the first run wrote the marker of every
\* row of the gap list it computed, the gap list of the second run is empty.
C2_Idempotence ==
    (run = "second" /\ rows_found # None /\ FirstRunWroteAll) => rows_found[1] = <<>>

C2_Witness ==
    /\ run = "second"
    /\ rows_found = Some(<<>>)
    /\ FirstRunWroteAll
    /\ Len(prev.rows_found[1]) = NumDataRows

\* C3 as stated: nothing is issued for a row whose marker was non-empty when
\* read, and every row read with non-empty source and empty marker is in the
\* gap list.
C3_Original ==
    \A r \in DataRows :
        WasRead(r) =>
            /\ MarkerRead(r) # <<>> => progress[r] = {}
            /\ (SourceRead(r) # <<>> /\ MarkerRead(r) = <<>>) => r \in RangeOf(rows_found[1])

\* C3 (amended): with blank (empty or whitespace only) for empty: nothing is
\* issued for a row whose marker was not blank when read, and every row read
\* with a source that is not blank and a blank marker is in the gap list.
C3_DoneRowsUntouched ==
    \A r \in DataRows :
        /\ WasRead(r) =>
              /\ ~AllSpaces(MarkerRead(r)) => progress[r] = {}
              /\ (~AllSpaces(SourceRead(r)) /\ AllSpaces(MarkerRead(r)))
                    => r \in RangeOf(rows_found[1])
        /\ ~WasRead(r) => progress[r] = {}

C3_Witness ==
    /\ pc = "done"
    /\ \E r1, r2 \in DataRows :
          /\ WasRead(r1) /\ WasRead(r2)
          /\ ~AllSpaces(MarkerRead(r1)) /\ ~AllSpaces(SourceRead(r1)) /\ progress[r1] = {}
          /\ "written" \in progress[r2]

\* C4 as stated (row-level failure isolation): once the run has started on its
\* rows, whatever goes wrong with one row, process_row is called for every
\* row of the list before the run ends.
C4_Original ==
    (pc = "done" /\ \E r \in DataRows : progress[r] # {}) =>
        \A r \in RangeOf(rows_to_process) : progress[r] # {}

\* C5 (attempt bound and propagation), for max_retries >= 1: when every
\* attempt fails the operation is invoked max_retries times with
\* max_retries - 1 sleeps and the error of the last attempt is raised; when
\* attempt k is the first to succeed its value is returned after k
\* invocations and k - 1 sleeps.
C5_AttemptBound ==
    (call.done /\ call.max_retries >= 1) =>
        LET n == call.max_retries
            r == call.result
            wins == {k \in 1..n : call.ok[k]}
        IN  IF wins = {}
            THEN /\ r.status = "raised"
                 /\ r.value = <<"err", n>>
                 /\ r.calls = n
                 /\ Len(r.delays) = n - 1
            ELSE LET k == CHOOSE j \in wins : \A i \in wins : j <= i
                 IN  /\ r.status = "returned"
                     /\ r.value = <<"val", k>>
                     /\ r.calls = k
                     /\ Len(r.delays) = k - 1

C5_Witness ==
    /\ call.done
    /\ call.max_retries = DEFAULT_MAX_RETRIES
    /\ \A k \in 1..DEFAULT_MAX_RETRIES : ~call.ok[k]
    /\ call.result.status = "raised"
    /\ call.result.calls = DEFAULT_MAX_RETRIES

\* C6 (backoff bound): the k-th sleep lasts min(base_delay * 2^(k-1) + jitter,
\* max_delay); so no sleep exceeds max_delay plus the jitter ceiling, and with
\* the defaults (5, 1.0 s, 16.0 s) and no jitter the sleeps are 1, 2, 4, 8 s.
C6_BackoffBound ==
    call.done =>
        LET d == call.result.delays
        IN  /\ \A k \in 1..Len(d) :
                  /\ d[k] = Min(call.base_delay * Pow2(k - 1) + call.jitter[k], call.max_delay)
                  /\ d[k] <= call.max_delay + 10
            /\ ( /\ call.max_retries = 5 /\ call.base_delay = 10 /\ call.max_delay = 160
                 /\ \A k \in 1..5 : ~call.ok[k] /\ call.jitter[k] = 0 )
               => d = <<10, 20, 40, 80>>

C6_Witness ==
    /\ call.done
    /\ call.max_retries = 5 /\ call.base_delay = 10 /\ call.max_delay = 160
    /\ call.result.delays = <<10, 20, 40, 80>>

\* C7 as stated (every remote call is retried): a run never dies of an error
\* of a column read, the sentence-id read, a header read or the header write
\* unless that call has failed DEFAULT_MAX_RETRIES times in a row.
C7_Original ==
    ( /\ outcome = "crashed"
      /\ err.kind = "remote"
      /\ err.op \in {"read_sheet_column", "read_sentence_id", "validate_sheet_structure",
                     "ensure_column_header"} )
    => err.attempts >= DEFAULT_MAX_RETRIES

\* C8 (gap detector exactness): on sequences of equal length the result is
\* strictly ascending and holds exactly start_row + i for the positions i
\* with a source that is not blank and a blank marker.
C8_GapExact ==
    (call.done /\ Len(call.audio) = Len(call.text)) =>
        LET rows == call.result.value
        IN  /\ call.result.status = "returned"
            /\ \A k \in 1..(Len(rows) - 1) : rows[k] < rows[k + 1]
            /\ RangeOf(rows) =
                  {call.start_row + i : i \in {j \in 0..(Len(call.text) - 1) :
                        ~AllSpaces(call.text[j + 1]) /\ AllSpaces(call.audio[j + 1])}}

C8_Witness ==
    /\ call.done
    /\ call.text = <<TXT, E, <<" ", "c">>>>
    /\ call.audio = <<E, E, TXT>>
    /\ call.start_row = DEFAULT_START_ROW
    /\ call.result.value = <<DEFAULT_START_ROW>>

\* C9 as stated: called with sequences of different lengths the gap detector
\* raises an alignment error instead of returning a list.
C9_Original ==
    (call.done /\ Len(call.audio) # Len(call.text)) => call.result.status = "raised"

\* C10 as stated (padding): with force_row_count = L the read returns exactly
\* L elements, what the first L cells from start_row display.
C10_Original ==
    (call.done /\ call.force_row_count # None) =>
        call.result = [k \in 1..call.force_row_count[1] |->
                          Display(call.column[call.start_row + k - 1])]


\* C11 (semantic truncation): read without a forced length, the column is
\* what its cells from start_row display, cut after the last cell that is
\* not blank: the blank cells before it keep their places.
C11_SemanticTruncation ==
    (call.done /\ call.force_row_count = None) =>
        LET shown == [k \in 1..(GridRows - call.start_row + 1) |->
                         Display(call.column[call.start_row + k - 1])]
            kept == {k \in 1..Len(shown) : ~AllSpaces(shown[k])}
            last == IF kept = {} THEN 0 ELSE CHOOSE k \in kept : \A j \in kept : j <= k
        IN  call.result = SubSeq(shown, 1, last)

C11_Witness ==
    /\ call.done
    /\ call.force_row_count = None
    /\ call.start_row = HEADER_ROW
    /\ SubSeq(call.column, 1, 3) = <<E, TXT, WS>>
    /\ \A k \in 4..GridRows : call.column[k] = E
    /\ call.result = <<E, TXT>>


\* ------------------------------------------------------------ the row cap
AscendingLists ==
    {s \in SeqsUpTo(DEFAULT_START_ROW..(DEFAULT_START_ROW + MaxSeqLen + 1), MaxSeqLen) :
        \A k \in 1..(Len(s) - 1) : s[k] < s[k + 1]}

\* argparse's type=int takes every integer literal, the negative ones too
InitCap ==
    /\ RunIdle
    /\ call \in [fn : {"cap"},
                 rows : AscendingLists,
                 max_rows : {None} \cup {Some(n) : n \in (0 - MaxSeqLen)..(MaxSeqLen + 1)},
                 done : {FALSE},
                 result : {<<>>}]

CallCap ==
    /\ call.fn = "cap"
    /\ ~call.done
    /\ call' = [call EXCEPT !.done = TRUE, !.result = cap_rows(call.rows, call.max_rows)]
    /\ UNCHANGED <<sheet, drive, args, run, pc, locals, progress, outcome, err, prev,
                   trace, sheet_at_start>>

SpecCap == InitCap /\ [][CallCap]_vars


\* ------------------------------------------------- the order of a run's calls
Calls == 1..Len(trace)

RowCalls == {i \in Calls : trace[i].row # 0}

Validated(i) == \E j \in 1..(i - 1) : trace[j].op = "validate" /\ trace[j].ok

\* C12 (driver phase order): the header validation completes before the
\* columns are read and before the gap is computed, and no store write and
\* no artifact-store call precedes it.
C12_Original ==
    /\ \A i \in Calls :
          trace[i].op \in {"ensure_header", "read_text", "read_audio", "folder"}
              => Validated(i)
    /\ rows_found # None => Validated(Len(trace) + 1)

HeaderBad(cell, name) == AllSpaces(Display(cell)) \/ lower(Display(cell)) # name

StructureBad(s) ==
    \/ HeaderBad(s.text[HEADER_ROW], TRANSLATION)
    \/ HeaderBad(s.audio[HEADER_ROW], AUDIO_FILE)
    \/ HeaderBad(s.id[HEADER_ROW], SENTENCE_ID)

LengthsDiffer ==
    /\ Calls # {}
    /\ trace[Len(trace)] = [op |-> "read_audio", row |-> 0, ok |-> TRUE]
    /\ Len(audio_col_values) # Len(text_col_values)

\* C13 (structural errors are fatal): a run that began on a sheet with a
\* missing or wrong source, marker or id header, or that read columns of
\* different lengths, ends in failure and has issued no call for any row.
C13_Original ==
    (pc = "done" /\ (StructureBad(sheet_at_start) \/ LengthsDiffer)) =>
        /\ outcome \in {"exit1", "crashed"}
        /\ RowCalls = {}

OpRank(op) ==
    CASE op = "synthesize" -> 1
      [] op = "read_id" -> 2
      [] op = "upload" -> 3
      [] op = "write_marker" -> 4
      [] OTHER -> 0

\* C14 (ascending order): of two calls made for rows, the earlier one is for
\* a lower row, or for the same row and an earlier step of it: every call
\* of a row precedes the first call of any higher row, and no step of a row
\* is made twice.
C14_AscendingOrder ==
    /\ \A i, j \in RowCalls :
          i < j => \/ trace[i].row < trace[j].row
                   \/ /\ trace[i].row = trace[j].row
                      /\ OpRank(trace[i].op) < OpRank(trace[j].op)
    /\ \A i \in RowCalls : \A j \in Calls : trace[j].row = 0 => j < i
    /\ \A k \in 1..(Len(rows_to_process) - 1) : rows_to_process[k] < rows_to_process[k + 1]
    /\ \A i \in RowCalls : \E k \in 1..cursor : rows_to_process[k] = trace[i].row

C14_Witness ==
    \E i, j \in RowCalls :
        /\ i < j
        /\ trace[i].op = "write_marker"
        /\ trace[j].op = "synthesize"
        /\ trace[i].row < trace[j].row

\* C15 (row cap): for every integer the option parser accepts as max_rows,
\* the rows kept are the first max_rows entries of the gap list, in order,
\* and never more than max_rows of them.
C15_Original ==
    (call.done /\ call.max_rows # None) =>
        LET N == call.max_rows[1]
        IN  /\ Len(call.result) <= N
            /\ call.result = SubSeq(call.rows, 1, Min(N, Len(call.rows)))


\* the cell holds the whole formula of this run's upload for the row: the
\* file's link, the file's name as label, and the closing parenthesis
CompleteMarker(cell, row) ==
    /\ IsHyperlink(cell)
    /\ cell[Len(cell)] = HL_CLOSE
    /\ LinkOf(cell) = LinkFor(run, row)
    /\ Display(cell) = FilenameOf(int(sheet.id[row]).val)

\* C16 (per-row persistence): the call after a row's successful upload is the
\* marker write of that row; and in every state a run can stop in, the marker
\* of a row is the complete hyperlink of this run's upload if its write was
\* acknowledged, and is what it was at the start otherwise: blank, for a row
\* of the gap list, so that the next run finds the row again.
C16_PerRowPersistence ==
    /\ \A i \in Calls :
          (trace[i].op = "upload" /\ trace[i].ok) =>
              IF i = Len(trace)
              THEN pc = "write_marker" /\ CurrentRow = trace[i].row
              ELSE trace[i + 1].op = "write_marker" /\ trace[i + 1].row = trace[i].row
    /\ \A r \in DataRows :
          IF "written" \in progress[r]
          THEN CompleteMarker(sheet.audio[r], r)
          ELSE /\ sheet.audio[r] = sheet_at_start.audio[r]
               /\ (rows_found # None /\ r \in RangeOf(rows_found[1]))
                      => AllSpaces(Display(sheet.audio[r]))

\* the run wrote one row's marker and died on the next row
C16_Witness ==
    /\ outcome = "crashed"
    /\ \E r1, r2 \in DataRows :
          /\ r1 < r2
          /\ "written" \in progress[r1]
          /\ CompleteMarker(sheet.audio[r1], r1)
          /\ progress[r2] # {}
          /\ "written" \notin progress[r2]
          /\ sheet.audio[r2] = E

AfterGap == {"folder", "validate", "synthesize", "read_id", "upload", "write_marker"}

\* C17 (empty gap): a run whose gap list came out empty has ended with
\* exit code 0, its last remote call is the read of the marker column, and
\* the store and the blob store are as the run found them.
C17_EmptyGap ==
    (rows_found = Some(<<>>)) =>
        /\ pc = "done"
        /\ outcome = "exit0"
        /\ trace[Len(trace)] = [op |-> "read_audio", row |-> 0, ok |-> TRUE]
        /\ \A i \in Calls : trace[i].op \notin AfterGap
        /\ \A r \in DataRows : sheet.audio[r] = sheet_at_start.audio[r]
        /\ sheet.text = sheet_at_start.text
        /\ sheet.id = sheet_at_start.id
        /\ run = "first" => drive = {}

\* the second run after a first one that filled the whole gap
C17_Witness ==
    /\ rows_found = Some(<<>>)
    /\ outcome = "exit0"
    /\ run = "second"
    /\ prev.outcome = "complete"
    /\ \E r \in DataRows : "written" \in prev.progress[r]

MarkerWrites == {i \in Calls : trace[i].op = "write_marker" /\ trace[i].ok}

ChangedMarkers == {r \in DataRows : sheet.audio[r] # sheet_at_start.audio[r]}

\* the first max_rows rows of the gap list, all of them without a cap
CappedGap ==
    IF rows_found = None THEN {}
    ELSE LET rows == rows_found[1]
             n == IF args.max_rows = None THEN Len(rows) ELSE Min(args.max_rows[1], Len(rows))
         IN  {rows[k] : k \in 1..n}

\* C18 (frame of a run): the source and id columns are as at the start; a
\* data marker that differs from its value at the start belongs to a row of
\* the capped gap list and has an acknowledged write of its own, so a marker
\* that was not blank at the start is unchanged.
C18_Frame ==
    /\ sheet.text = sheet_at_start.text
    /\ sheet.id = sheet_at_start.id
    /\ \A r \in ChangedMarkers :
          /\ r \in CappedGap
          /\ \E i \in MarkerWrites : trace[i].row = r
    /\ Cardinality(ChangedMarkers) <= Cardinality(MarkerWrites)
    /\ \A r \in DataRows :
          ~AllSpaces(Display(sheet_at_start.audio[r])) => r \notin ChangedMarkers

\* a capped run wrote the first gap row's marker and left the second gap
\* row's alone
C18_Witness ==
    /\ pc = "done"
    /\ outcome = "complete"
    /\ args.max_rows = Some(1)
    /\ rows_found # None
    /\ Len(rows_found[1]) = 2
    /\ ChangedMarkers = {rows_found[1][1]}


\* -------------------------------------------------- wait_for_translations
\* the poller that takes a formula text for a translation
translations_resolved_any_text(values, num_rows) ==
    /\ Len(values) = num_rows
    /\ \A k \in 1..Len(values) : values[k] # <<>>

\* the poller that expects one row more than it asked for
translations_resolved_one_more(values, num_rows) ==
    /\ Len(values) = num_rows + 1
    /\ \A k \in 1..Len(values) :
          values[k] # <<>> /\ ~(values[k][1] # <<>> /\ Head(values[k][1]) = "=")

\* len(values) == num_rows and all(row and not row[0].startswith("=") for row in values)
translations_resolved(values, num_rows) ==
    /\ Len(values) = num_rows
    /\ \A k \in 1..Len(values) :
          values[k] # <<>> /\ ~(values[k][1] # <<>> /\ Head(values[k][1]) = "=")

\* what a cell of the formula column can show: nothing, the text of a
\* formula, a translation
FORMULA == <<"=", "G">>
PollCells == {E, FORMULA, TXT}

InitPoll ==
    /\ RunIdle
    /\ call \in [fn : {"poll"},
                 column : {<<E>> \o d : d \in [1..NumDataRows -> PollCells]},
                 start_row : {DEFAULT_START_ROW},
                 num_rows : 1..NumDataRows,
                 pc : {"read"},
                 values : {<<>>},
                 result : {None},
                 read_ok : {TRUE},
                 cycles : {0},
                 slept : {0}]

\* values().get(...).execute(), result.get("values", []) and the test; the
\* call is in no try, so its error leaves the function
PollRead ==
    /\ call.fn = "poll"
    /\ call.pc = "read"
    /\ \E ok \in BOOLEAN :
          IF ok
          THEN LET values == ValuesGet(call.column, call.start_row,
                                       Some(call.start_row + call.num_rows - 1))
               IN  call' = [call EXCEPT
                               !.values = values,
                               !.read_ok = TRUE,
                               !.pc = IF translations_resolved(values, call.num_rows)
                                      THEN "returned" ELSE "sleep",
                               !.result = IF translations_resolved(values, call.num_rows)
                                          THEN Some(values) ELSE None]
          ELSE call' = [call EXCEPT !.read_ok = FALSE, !.pc = "raised"]
    /\ UNCHANGED <<sheet, drive, args, run, pc, locals, progress, outcome, err, prev,
                   trace, sheet_at_start>>

\* time.sleep(15), then the next turn of `while True`
PollSleep ==
    /\ call.fn = "poll"
    /\ call.pc = "sleep"
    /\ call' = [call EXCEPT !.pc = "read",
                            !.slept = POLL_INTERVAL,
                            !.cycles = Min(@ + 1, MaxCycles)]
    /\ UNCHANGED <<sheet, drive, args, run, pc, locals, progress, outcome, err, prev,
                   trace, sheet_at_start>>

\* the store's formula engine, or anyone else, changes a cell of the column
\* while the poller runs
StoreChanges ==
    /\ call.fn = "poll"
    /\ call.pc \in {"read", "sleep"}
    /\ \E r \in DataRows, c \in PollCells :
          /\ call.column[r] # c
          /\ call' = [call EXCEPT !.column[r] = c]
    /\ UNCHANGED <<sheet, drive, args, run, pc, locals, progress, outcome, err, prev,
                   trace, sheet_at_start>>

NextPoll == PollRead \/ PollSleep \/ StoreChanges

\* The poller is a running thread: a read that is due is made, a sleep ends.
SpecPoll == InitPoll /\ [][NextPoll]_vars /\ WF_vars(PollRead) /\ WF_vars(PollSleep)


\* ------------------------------------------------------ the poller's claims
Polling == call.pc \in {"read", "sleep"}
Returned == call.pc = "returned"
Raised == call.pc = "raised"

\* the cells the poller asks for, as the store shows them now
Asked == [k \in 1..call.num_rows |-> call.column[call.start_row + k - 1]]

\* the store's resolution condition: each asked cell shows a text that does
\* not begin with '='
Resolved == \A k \in 1..call.num_rows : Asked[k] # E /\ Asked[k][1] # "="

\* the same of a read's content
ReadResolved(values, n) ==
    /\ Len(values) = n
    /\ \A k \in 1..n : /\ Len(values[k]) = 1
                       /\ values[k][1] # E
                       /\ values[k][1][1] # "="

\* C19 (poller success condition): the poller has returned only from a
\* read of exactly num_rows rows, each with a non-empty text not beginning
\* with '=', and what it returned is that read; after any other read it
\* sleeps POLL_INTERVAL seconds and reads again.
C19_SuccessCondition ==
    /\ Returned => /\ call.result = Some(call.values)
                   /\ ReadResolved(call.values, call.num_rows)
    /\ call.pc = "sleep" => ~ReadResolved(call.values, call.num_rows)
    /\ (call.pc = "read" /\ call.cycles > 0) =>
           /\ ~ReadResolved(call.values, call.num_rows)
           /\ call.slept = POLL_INTERVAL
    /\ Polling \/ Raised => call.result = None

\* a return after a cycle that had to sleep
C19_Witness ==
    /\ Returned
    /\ call.cycles > 0
    /\ call.num_rows = NumDataRows
    /\ call.result = Some([k \in 1..NumDataRows |-> <<TXT>>])

PositionOf(r) == CHOOSE k \in 1..Len(rows_to_process) : rows_to_process[k] = r

IdReadOk(r) == \E i \in Calls : trace[i] = [op |-> "read_id", row |-> r, ok |-> TRUE]

\* C21 (missing sentence id): a row whose id cell was read and is empty or
\* blank is given up without an upload and without a marker write, its
\* marker is as it was, process_row has returned and the loop has gone on
\* to the next row or ended normally.
C21_MissingIdSkip ==
    \A r \in DataRows :
        (IdReadOk(r) /\ AllSpaces(Display(sheet.id[r]))) =>
            /\ "id_missing" \in progress[r]
            /\ \A i \in Calls :
                  trace[i].row = r => trace[i].op \notin {"upload", "write_marker"}
            /\ sheet.audio[r] = sheet_at_start.audio[r]
            /\ AllSpaces(Display(sheet.audio[r]))
            /\ \/ cursor > PositionOf(r)
               \/ /\ PositionOf(r) = Len(rows_to_process)
                  /\ pc = "done"
                  /\ outcome = "complete"

\* an empty id in one row and a blank one in the next, both skipped
C21_Witness ==
    /\ pc = "done"
    /\ outcome = "complete"
    /\ \E r1, r2 \in DataRows :
          /\ r1 < r2
          /\ sheet.id[r1] = E
          /\ sheet.id[r2] = WS
          /\ "id_missing" \in progress[r1]
          /\ "id_missing" \in progress[r2]


\* --------------------------------------------------------- artifact naming
AUDIO_ENCODINGS == {"MP3", "OGG_OPUS", "LINEAR16"}

\* mime_type_map.get(audio_encoding, 'audio/mpeg')
get_mime_type(audio_encoding) ==
    CASE audio_encoding = "MP3" -> "audio/mpeg"
      [] audio_encoding = "OGG_OPUS" -> "audio/ogg"
      [] audio_encoding = "LINEAR16" -> "audio/wav"
      [] OTHER -> "audio/mpeg"

\* The file process_row uploads for a sentence id under an encoding: its
\* name, f"sentence_{int(sentence_id):06}.mp3", does not look at the
\* encoding; its MIME type does.
artifact_of(sentence_id, audio_encoding) ==
    [filename |-> FilenameOf(int(sentence_id).val),
     mime_type |-> get_mime_type(audio_encoding)]

\* the texts of id cells that int() takes
IdTexts ==
    {<<"1">>, <<"0", "1">>, <<"7">>, <<"1", "2">>, <<"-", "5">>,
     <<"1", "2", "3", "4", "5", "6", "7">>}

InitName ==
    /\ RunIdle
    /\ call \in [fn : {"name"},
                 sentence_id : [1..2 -> IdTexts],
                 audio_encoding : [1..2 -> AUDIO_ENCODINGS],
                 done : {FALSE},
                 result : {<<>>}]

\* the naming of two rows' files
CallName ==
    /\ call.fn = "name"
    /\ ~call.done
    /\ call' = [call EXCEPT
                   !.done = TRUE,
                   !.result = [k \in 1..2 |->
                                  artifact_of(call.sentence_id[k], call.audio_encoding[k])]]
    /\ UNCHANGED <<sheet, drive, args, run, pc, locals, progress, outcome, err, prev,
                   trace, sheet_at_start>>

SpecName == InitName /\ [][CallName]_vars

ExtensionOf(name) == name[Len(name)]

\* C22 (artifact naming): the filename is "sentence_", the id as an integer
\* zero-padded to 6 digits, and an extension that differs between the
\* encodings MP3, OGG_OPUS and LINEAR16; rows with different ids get
\* different filenames.
C22_Original ==
    call.done =>
        /\ \A k \in 1..2 :
              LET n == int(call.sentence_id[k]).val
              IN  (n \in 0..999999) =>
                      /\ Len(call.result[k].filename) = 1 + FILENAME_WIDTH + 1
                      /\ DigitsVal(SubSeq(call.result[k].filename, 2, 1 + FILENAME_WIDTH)) = n
        /\ call.audio_encoding[1] # call.audio_encoding[2] =>
              ExtensionOf(call.result[1].filename) # ExtensionOf(call.result[2].filename)
        /\ int(call.sentence_id[1]).val # int(call.sentence_id[2]).val =>
              call.result[1].filename # call.result[2].filename


\* C25 (at least one attempt): for every max_retries, zero and negative
\* included, the executor invokes the operation at least once and ends by
\* returning a value the operation returned or by raising an error the
\* operation raised.
C25_Original ==
    call.done =>
        LET r == call.result
        IN  /\ r.calls >= 1
            /\ \/ r.status = "returned" /\ r.value = <<"val", r.calls>>
               \/ r.status = "raised" /\ r.value = <<"err", r.calls>>


\* ------------------------------------------------------------- convergence
NonBlankSource(r) == ~AllSpaces(Display(sheet.text[r]))

\* a finished, uncapped run in which every gap row got as far as an
\* acknowledged marker write
AllSucceeded(rf, p, o) ==
    /\ o = "complete"
    /\ args.max_rows = None
    /\ rf # None
    /\ \A r \in RangeOf(rf[1]) : "written" \in p[r]

Converged == pc = "done" /\ AllSucceeded(rows_found, progress, outcome)

\* C23 (end-to-end convergence), as stated: after such a run every row with
\* a non-blank source has a hyperlink marker, every row with a blank source
\* has an empty marker, and the run after it computes an empty gap.
C23_Original ==
    /\ Converged =>
          \A r \in DataRows :
              IF NonBlankSource(r)
              THEN IsHyperlink(sheet.audio[r])
              ELSE AllSpaces(Display(sheet.audio[r]))
    /\ (run = "second" /\ AllSucceeded(prev.rows_found, prev.progress, prev.outcome)
            /\ rows_found # None)
           => rows_found = Some(<<>>)

\* C23 (end-to-end convergence): after such a run every gap row's marker is
\* the hyperlink formula of its upload's link and its filename, every other
\* row with a non-blank source has the hyperlink it had, every row with a
\* blank source has the marker it had at the start (empty if it was empty),
\* and the run after it computes an empty gap.
C23_Convergence ==
    /\ Converged =>
          \A r \in DataRows :
              IF r \in RangeOf(rows_found[1])
              THEN NonBlankSource(r) /\ CompleteMarker(sheet.audio[r], r)
              ELSE /\ sheet.audio[r] = sheet_at_start.audio[r]
                   /\ NonBlankSource(r) => IsHyperlink(sheet.audio[r])
    /\ (run = "second" /\ AllSucceeded(prev.rows_found, prev.progress, prev.outcome)
            /\ rows_found # None)
           => rows_found = Some(<<>>)

\* the spec's example on the rows of the grid: every row in the gap, all
\* written, and the second run finds nothing
C23_Witness ==
    /\ run = "second"
    /\ AllSucceeded(prev.rows_found, prev.progress, prev.outcome)
    /\ Len(prev.rows_found[1]) = NumDataRows
    /\ rows_found = Some(<<>>)
    /\ \A r \in DataRows : IsHyperlink(sheet.audio[r])

\* the file this run uploaded for a row
UploadOf(r) == [name |-> FilenameOf(int(sheet.id[r]).val), link |-> LinkFor(run, r)]

\* C26 (marker write out of retries): the run does not die of it; the row's
\* marker is as it was, blank; the loop has gone on past the row; the file
\* uploaded for the row is in the blob store and no marker holds its link.
\* The next run has the row in its gap, and its upload for the row is a
\* second file of the same name.
C26_WriteExhausted ==
    /\ \A r \in DataRows :
          "write_failed" \in progress[r] =>
              /\ "uploaded" \in progress[r]
              /\ sheet.audio[r] = sheet_at_start.audio[r]
              /\ AllSpaces(Display(sheet.audio[r]))
              /\ UploadOf(r) \in drive
              /\ \A q \in DataRows :
                    IsHyperlink(sheet.audio[q]) => LinkOf(sheet.audio[q]) # UploadOf(r).link
              /\ \/ cursor > PositionOf(r)
                 \/ /\ PositionOf(r) = Len(rows_to_process)
                    /\ pc = "done"
                    /\ outcome = "complete"
              /\ outcome = "crashed" => trace[Len(trace)].row > r
    /\ \A r \in DataRows :
          (run = "second" /\ "write_failed" \in prev.progress[r]) =>
              /\ rows_found # None => r \in RangeOf(rows_found[1])
              /\ "uploaded" \in progress[r] =>
                    \E f, g \in drive : f.name = g.name /\ f.link # g.link
                                         /\ g = UploadOf(r)

\* the write of the first gap row failed, the second gap row was written,
\* and the next run uploaded the first row's file again
C26_Witness ==
    /\ run = "second"
    /\ \E r, q \in DataRows :
          /\ r < q
          /\ "write_failed" \in prev.progress[r]
          /\ "written" \in prev.progress[q]
          /\ "uploaded" \in progress[r]
          /\ Cardinality({f \in drive : f.name = UploadOf(r).name}) = 2


\* ------------------------------------------- translate_sheet_generator main
\* The destination sheet is a sequence of columns (A, B, C, D), each a
\* sequence of cells by row number.  A GOOGLETRANSLATE formula is entered
\* text; what values().get shows for it depends on how far the formula
\* engine is with it.
GT_NAME == "GOOGLETRANSLATE("
GT_ARGS == ", \"en\", \"{target_lang}\")"
LOADING == <<"L", "o", "a", "d", "i", "n", "g", ".", ".", ".">>
SENTENCE == <<"s", "e", "n", "t", "e", "n", "c", "e">>

\* f'=GOOGLETRANSLATE(B{i+1}, "en", "{args.target_lang}")'
translate_formula(i) == <<"=", GT_NAME, "B">> \o Digits(i + 1) \o <<GT_ARGS>>

IsTranslateFormula(e) == Len(e) >= 2 /\ e[1] = "=" /\ e[2] = GT_NAME

\* the rows numbered from 0
population_rows_from_zero(english_sentences) ==
    [i \in 1..Len(english_sentences) |->
        <<Digits(i - 1), english_sentences[i][1], translate_formula(i)>>]

\* for i, row in enumerate(english_sentences, start=1):
\*     rows.append([i, row[0], formula])
population_rows(english_sentences) ==
    [i \in 1..Len(english_sentences) |->
        <<Digits(i), english_sentences[i][1], translate_formula(i)>>]

\* the copy made from the first wait's result
copied_from_first(first, second) == [k \in 1..Len(first) |-> <<first[k][1]>>]

\* wait_for_translations(...) and then
\* translations = [[cell[0]] for cell in wait_for_translations(...)]: the
\* first result is dropped
copied_translations(first, second) == [k \in 1..Len(second) |-> <<second[k][1]>>]

EmptyGrid == [c \in 1..4 |-> [r \in 1..GridRows |-> E]]

\* values().update(range = {first column}{row}:..., values = rows)
UpdateRows(grid, first_col, row, rows) ==
    [c \in 1..Len(grid) |->
        [r \in 1..Len(grid[c]) |->
            IF /\ r >= row
               /\ r < row + Len(rows)
               /\ c >= first_col
               /\ c < first_col + Len(rows[r - row + 1])
            THEN rows[r - row + 1][c - first_col + 1]
            ELSE grid[c][r]]]

\* deleteDimension of the column with zero-based index column_index
delete_column(grid, column_index) ==
    [c \in 1..(Len(grid) - 1) |-> IF c <= column_index THEN grid[c] ELSE grid[c + 1]]

\* what the cells of a column show
ShownColumn(column, english, engine) ==
    [r \in 1..Len(column) |->
        IF ~IsTranslateFormula(column[r]) THEN column[r]
        ELSE CASE engine[r] = "formula" -> column[r]
               [] engine[r] = "loading" -> LOADING
               [] OTHER -> <<"T">> \o english[r]]

EngineStates == {"formula", "loading", "done"}

SourceCells == {E, TXT, <<"b">>}

InitTranslate ==
    /\ RunIdle
    /\ call \in [fn : {"translate"},
                 source : [1..NumDataRows -> SourceCells],
                 engine : [DataRows -> EngineStates],
                 pc : {"read_source"},
                 english_sentences : {<<>>},
                 num_rows : {0},
                 grid : {<<>>},
                 wait : {1},
                 first : {None},
                 second : {None},
                 steps : {<<>>},
                 outcome : {"running"}]

TranslateFrame ==
    UNCHANGED <<sheet, drive, args, run, pc, locals, progress, outcome, err, prev,
                trace, sheet_at_start>>

AtStep(label) == call.fn = "translate" /\ call.pc = label

\* an error nothing catches leaves main
Raise(op) == call' = [call EXCEPT !.pc = "done", !.outcome = "raised"]

Step(op, next) == [call EXCEPT !.pc = next, !.steps = Append(@, op)]


\* values().get(range = "A1:A") of the source tab; `if num_rows == 0: return`
ReadSource ==
    /\ AtStep("read_source")
    /\ \E ok \in BOOLEAN :
          IF ~ok THEN Raise("read_source")
          ELSE LET values == ValuesGet(call.source, 1, None)
               IN  call' = [Step("read_source", IF Len(values) = 0 THEN "done" ELSE "create")
                               EXCEPT !.english_sentences = values,
                                      !.num_rows = Len(values),
                                      !.outcome = IF Len(values) = 0 THEN "returned"
                                                  ELSE "running"]
    /\ TranslateFrame

\* drive_service.files().create(...): its HttpError is caught, main returns
CreateSheet ==
    /\ AtStep("create")
    /\ \E ok \in BOOLEAN :
          IF ~ok THEN call' = [call EXCEPT !.pc = "done", !.outcome = "returned"]
          ELSE call' = [Step("create", "populate") EXCEPT !.grid = EmptyGrid]
    /\ TranslateFrame

\* the loop that builds rows (row[0] of an empty row is an IndexError) and
\* the write of A2:C
Populate ==
    /\ AtStep("populate")
    /\ IF \E i \in 1..call.num_rows : call.english_sentences[i] = <<>>
       THEN Raise("IndexError")
       ELSE \E ok \in BOOLEAN :
               IF ~ok THEN Raise("populate")
               ELSE call' = [Step("populate", "wait") EXCEPT
                                !.grid = UpdateRows(call.grid, 1, DEFAULT_START_ROW,
                                                    population_rows(call.english_sentences))]
    /\ TranslateFrame

\* one turn of the loop of wait_for_translations(dest, "Sheet1", "C", 2,
\* num_rows), in the first call or in the second
WaitRead ==
    /\ AtStep("wait")
    /\ \E ok \in BOOLEAN :
          IF ~ok THEN Raise("wait")
          ELSE LET values == ValuesGet(ShownColumn(call.grid[3], call.grid[2], call.engine),
                                       DEFAULT_START_ROW,
                                       Some(DEFAULT_START_ROW + call.num_rows - 1))
               IN  IF ~translations_resolved(values, call.num_rows)
                   THEN call' = [call EXCEPT !.pc = "sleep"]
                   ELSE IF call.wait = 1
                   THEN call' = [Step("wait_1", "wait") EXCEPT
                                    !.first = Some(values), !.wait = 2]
                   ELSE call' = [Step("wait_2", "copy") EXCEPT !.second = Some(values)]
    /\ TranslateFrame

\* time.sleep(15)
WaitSleep ==
    /\ AtStep("sleep")
    /\ call' = [call EXCEPT !.pc = "wait"]
    /\ TranslateFrame

\* the write of the translations to D2:D
Copy ==
    /\ AtStep("copy")
    /\ \E ok \in BOOLEAN :
          IF ~ok THEN Raise("copy")
          ELSE call' = [Step("copy", "clear") EXCEPT
                           !.grid = UpdateRows(call.grid, 4, DEFAULT_START_ROW,
                                               copied_translations(call.first[1],
                                                                   call.second[1]))]
    /\ TranslateFrame

\* the write of [""] * num_rows to C2:C
Clear ==
    /\ AtStep("clear")
    /\ \E ok \in BOOLEAN :
          IF ~ok THEN Raise("clear")
          ELSE call' = [Step("clear", "format") EXCEPT
                           !.grid = UpdateRows(call.grid, 3, DEFAULT_START_ROW,
                                               [k \in 1..call.num_rows |-> <<E>>])]
    /\ TranslateFrame

\* spreadsheets().get, the font requests and the auto-resize (whose
\* HttpError is caught): none of them changes a cell's content
Format ==
    /\ AtStep("format")
    /\ \E ok \in BOOLEAN :
          IF ~ok THEN Raise("format") ELSE call' = Step("format", "delete")
    /\ TranslateFrame

\* delete_column(dest_sheet_id, sheet_id, 2)
DeleteColumn ==
    /\ AtStep("delete")
    /\ \E ok \in BOOLEAN :
          IF ~ok THEN Raise("delete")
          ELSE call' = [Step("delete", "header") EXCEPT !.grid = delete_column(call.grid, 2)]
    /\ TranslateFrame

\* the write of header_values to A1:C1
WriteHeader ==
    /\ AtStep("header")
    /\ \E ok \in BOOLEAN :
          IF ~ok THEN Raise("header")
          ELSE call' = [Step("header", "finish") EXCEPT
                           !.grid = UpdateRows(call.grid, 1, HEADER_ROW,
                                               <<<<SENTENCE_ID, SENTENCE, TRANSLATION>>>>)]
    /\ TranslateFrame

\* freeze_top_row and set_row_font
Finish ==
    /\ AtStep("finish")
    /\ \E ok \in BOOLEAN :
          IF ~ok THEN Raise("finish")
          ELSE call' = [Step("finish", "done") EXCEPT !.outcome = "complete"]
    /\ TranslateFrame

\* the store's formula engine gets on with a formula
FormulaEngine ==
    /\ call.fn = "translate"
    /\ call.pc \in {"wait", "sleep", "copy", "clear"}
    /\ \E r \in DataRows :
          /\ call.engine[r] # "done"
          /\ call' = [call EXCEPT !.engine[r] =
                         IF @ = "formula" THEN "loading" ELSE "done"]
    /\ TranslateFrame

NextTranslate ==
    \/ ReadSource
    \/ CreateSheet
    \/ Populate
    \/ WaitRead
    \/ WaitSleep
    \/ Copy
    \/ Clear
    \/ Format
    \/ DeleteColumn
    \/ WriteHeader
    \/ Finish
    \/ FormulaEngine

SpecTranslate == InitTranslate /\ [][NextTranslate]_vars


\* ------------------------------------------- the translation run's claims
Did(op) == \E k \in 1..Len(call.steps) : call.steps[k] = op

StepOf(op) == CHOOSE k \in 1..Len(call.steps) : call.steps[k] = op

Before(a, b) == Did(b) => (Did(a) /\ StepOf(a) < StepOf(b))

\* the row a translate formula refers to, for a formula of column B
RowReferred(e) == DigitsVal(SubSeq(e, 4, Len(e) - 1))

\* C24 (sentence ids): from the population step on, sheet row i + 1 holds
\* id i and the i-th source sentence, for i in 1..n, and until the formula
\* column is cleared its formula refers to B{i + 1}; the ids are strictly
\* increasing with the row; no cell of column A below them is written, and
\* the only other write to column A is its header.
C24_SentenceIds ==
    (call.fn = "translate" /\ Did("populate")) =>
        LET n == call.num_rows
            A == call.grid[1]
            B == call.grid[2]
        IN  /\ n = Len(call.english_sentences)
            /\ \A i \in 1..n :
                  /\ A[i + 1] = Digits(i)
                  /\ B[i + 1] = call.source[i]
                  /\ ~Did("clear") =>
                        /\ IsTranslateFormula(call.grid[3][i + 1])
                        /\ call.grid[3][i + 1][3] = "B"
                        /\ RowReferred(call.grid[3][i + 1]) = i + 1
            /\ \A i, j \in 1..n : i < j => DigitsVal(A[i + 1]) < DigitsVal(A[j + 1])
            /\ \A r \in (n + 2)..GridRows : A[r] = E
            /\ A[HEADER_ROW] = IF Did("header") THEN SENTENCE_ID ELSE E

C24_Witness ==
    /\ call.fn = "translate"
    /\ call.outcome = "complete"
    /\ call.num_rows = NumDataRows
    /\ \A i \in 1..NumDataRows : call.grid[1][i + 1] = Digits(i)
    /\ call.grid[1][HEADER_ROW] = SENTENCE_ID

\* the column the translations are kept in: D, and C once C is deleted
Kept == IF Did("delete") THEN call.grid[3] ELSE call.grid[4]

\* C27 (finalization order): the formulas are written before the first
\* wait; both waits end on a read that satisfies the resolution condition;
\* the copy holds the second wait's values and is written before the
\* formula column is cleared, the clearing before the column is deleted,
\* the header after the deletion.
C27_FinalizationOrder ==
    call.fn = "translate" =>
        /\ Before("populate", "wait_1")
        /\ Before("wait_1", "wait_2")
        /\ Before("wait_2", "copy")
        /\ Before("copy", "clear")
        /\ Before("clear", "delete")
        /\ Before("delete", "header")
        /\ Did("wait_1") <=> call.first # None
        /\ Did("wait_2") <=> call.second # None
        /\ call.first # None => ReadResolved(call.first[1], call.num_rows)
        /\ call.second # None => ReadResolved(call.second[1], call.num_rows)
        /\ Did("create") =>
              /\ \A r \in DataRows :
                    Kept[r] = IF Did("copy") /\ r <= call.num_rows + 1
                              THEN call.second[1][r - 1][1] ELSE E
              /\ Len(call.grid) = IF Did("delete") THEN 3 ELSE 4
              /\ (Did("clear") /\ ~Did("delete")) =>
                    \A r \in DataRows : call.grid[3][r] = E
              /\ \A c \in 1..Len(call.grid) :
                    call.grid[c][HEADER_ROW] # E => Did("header")
              /\ Did("header") => Kept[HEADER_ROW] = TRANSLATION

\* a finished run whose two waits ended on different reads
C27_Witness ==
    /\ call.fn = "translate"
    /\ call.outcome = "complete"
    /\ call.first # call.second
    /\ call.num_rows = NumDataRows
    /\ \A r \in DataRows : call.grid[3][r] = call.second[1][r - 1][1]

====
